---- MODULE Spec2Model ----
(***************************************************************************)
(* One trial of the HARPPP CSTR impeller optimisation, as run by           *)
(* optimisation/impellers_access_seed42/access_script.py: the trial        *)
(* directory, create_case, the four stage commands with their supervisors  *)
(* system and system_timeout, the result extraction and the final save of  *)
(* `error` to sys.argv[2].  An optimizer polling for the output file runs  *)
(* beside the trial.                                                       *)
(*                                                                         *)
(* Numbers: parameters are held in hundredths, timestamps in ticks of      *)
(* 1/TimeScale time unit, and every quotient as a pair <<num, den>> with   *)
(* den > 0, so that no rounding is introduced by the model.                *)
(***************************************************************************)
EXTENDS Integers, Sequences, FiniteSets

VARIABLES
    pc,            \* position of the script (the statement about to run)
    exitKind,      \* "none" while running, then "ok" | "exception" | "os_exit"
    raised,        \* the exception that ended the script, and where
    simulations,   \* whether the directory Simulations exists
    trialDir,      \* whether Simulations/sim<id> exists
    template,      \* the settings.toml documents of Template
    docs,          \* the settings.toml documents of the trial directory
    parameters,    \* parameters["value"], unpickled from sys.argv[1]
    procs,         \* one record per external command of the trial
    sup,           \* position inside system_timeout, "none" outside it
    finished,      \* what the last system_timeout returned: "True" | "False"
    covFile,       \* latest volFieldValue1.CoV/.../volFieldValue.dat
    avgFile,       \* latest volFieldValue1.volAverage/.../volFieldValue.dat
    cov_data, avg_data, epsilon_cov, epsilon_avg, final_time, error,
    outFile,       \* the file at sys.argv[2]
    observed,      \* what the optimizer saw at its last poll of sys.argv[2]
    calls,         \* calls of create_case that have returned and been repeated
    firstDocs      \* the documents as the first call of create_case left them

vars == <<pc, exitKind, raised, simulations, trialDir, template, docs,
          parameters, procs, sup, finished, covFile, avgFile, cov_data, avg_data,
          epsilon_cov, epsilon_avg, final_time, error, outFile, observed,
          calls, firstDocs>>

fsVars == <<simulations, trialDir, template, docs>>
dataVars == <<cov_data, avg_data, epsilon_cov, epsilon_avg, final_time, error>>
fileVars == <<covFile, avgFile>>
procVars == <<procs, sup, finished>>
callVars == <<calls, firstDocs>>

(***************************************************************************)
(* Bounds of the model.                                                    *)
(***************************************************************************)
TimeScale == 2      \* ticks per time unit
MaxLen == 3         \* rows of a time series file
MaxVal == 2         \* values of a series are 0 .. MaxVal

(***************************************************************************)
(* Exceptions and the two ways the script stops early.                     *)
(***************************************************************************)
\* raised.exc is the exception that ended the script ("none" for none) and
\* raised.at the statement at which the script stopped early.
NotRaised == [exc |-> "none", at |-> "none"]

\* An uncaught exception ends the interpreter: nothing of the script runs
\* after the raising statement.
Raise(e) ==
    /\ pc' = "stopped"
    /\ exitKind' = "exception"
    /\ raised' = [exc |-> e, at |-> pc]

\* os._exit(1): the process ends at once, no exception is raised.
os_exit ==
    /\ pc' = "stopped"
    /\ exitKind' = "os_exit"
    /\ raised' = [exc |-> "none", at |-> pc]

Goto(l) ==
    /\ pc' = l
    /\ UNCHANGED <<exitKind, raised>>

(***************************************************************************)
(* Rational numbers as pairs <<num, den>>, den > 0.                        *)
(***************************************************************************)
Frac(n, d) == <<n, d>>
FracLess(a, b) == a[1] * b[2] < b[1] * a[2]
FracEq(a, b) == a[1] * b[2] = b[1] * a[2]
FracLeq(a, b) == ~FracLess(b, a)
Abs(x) == IF x < 0 THEN -x ELSE x
Max(a, b) == IF a > b THEN a ELSE b

(***************************************************************************)
(* The parameter set of the trial.  Values are in hundredths (PScale).     *)
(***************************************************************************)
PScale == 100

ParameterSets ==
    { [bottom_clearance |-> 30, xplace |-> 0, yplace |-> 0,
       height_ratio |-> 50, diameter_ratio |-> 40,
       place_rel |-> 50, around_number |-> 250, repeat_number |-> 100],
      [bottom_clearance |-> 20, xplace |-> -10, yplace |-> 25,
       height_ratio |-> 60, diameter_ratio |-> 50,
       place_rel |-> 25, around_number |-> 350, repeat_number |-> 149] }

\* Python's round(x) of a float held in hundredths: to the nearest integer,
\* a tie going to the even one.
round(h) ==
    LET q == h \div PScale
        r == h % PScale
    IN  IF 2 * r > PScale THEN q + 1
        ELSE IF 2 * r < PScale THEN q
        ELSE IF q % 2 = 0 THEN q ELSE q + 1

(***************************************************************************)
(* create_case: the derived sizes and the three settings.toml documents.   *)
(***************************************************************************)
vessel_height == 2000
vessel_base_clearance == 600
vessel_diameter == 2000

vessel_height0(p) ==
    Frac(vessel_base_clearance * PScale - vessel_height * p.bottom_clearance, PScale)
vessel_xtranslate(p) == Frac(-(vessel_diameter * p.xplace), 2 * PScale)
vessel_ytranslate(p) == Frac(-(vessel_diameter * p.yplace), 2 * PScale)
impeller_height(p) ==
    Frac(vessel_height * (PScale - p.bottom_clearance) * p.height_ratio, PScale * PScale)
max_translate(p) == Max(Abs(p.xplace), Abs(p.yplace))
impeller_diameter(p) ==
    Frac(vessel_diameter * (PScale - max_translate(p)) * p.diameter_ratio, PScale * PScale)

\* 50 mm around the impeller, in metres: x / 1000 + 50e-3.
rotation_height0 == Frac(-50, 1000)
rotation_height1(p) ==
    Frac(impeller_height(p)[1] + 50 * impeller_height(p)[2], 1000 * impeller_height(p)[2])
rotation_radius(p) ==
    Frac(impeller_diameter(p)[1] + 100 * impeller_diameter(p)[2],
         2000 * impeller_diameter(p)[2])
\* 0.5 * 0.5 / rotation_radius
mesh_scale(p) == Frac(rotation_radius(p)[2], 4 * rotation_radius(p)[1])

DocNames == {"vessel", "impeller", "mesh"}

\* A document of the trial directory or of Template: st is "ok", "absent"
\* or "corrupt" (no valid TOML, e.g. truncated), and settings holds the keys
\* create_case sets, with `rest` for every other key of the document.
Readable(doc) == doc.st = "ok"
Doc(settings) == [st |-> "ok", settings |-> settings]
NoDoc(st) == [st |-> st, settings |-> [rest |-> "none"]]

TemplateSettings(d) ==
    CASE d = "vessel" ->
           [height0 |-> Frac(0, 1), xtranslate |-> Frac(0, 1),
            ytranslate |-> Frac(0, 1), rest |-> "vessel"]
      [] d = "impeller" ->
           [height |-> Frac(0, 1), diameter |-> Frac(0, 1),
            place_rel |-> Frac(0, 1), around_number |-> 0, repeat_number |-> 0,
            rest |-> "impeller"]
      [] d = "mesh" ->
           [height0 |-> Frac(0, 1), height1 |-> Frac(0, 1), radius |-> Frac(0, 1),
            xscale |-> Frac(1, 1), yscale |-> Frac(1, 1), zscale |-> Frac(1, 1),
            rest |-> "mesh"]

\* settings after the assignments of create_case, from the settings loaded.
UpdateSettings(d, settings, p) ==
    CASE d = "vessel" ->
           [settings EXCEPT !.height0 = vessel_height0(p),
                            !.xtranslate = vessel_xtranslate(p),
                            !.ytranslate = vessel_ytranslate(p)]
      [] d = "impeller" ->
           [settings EXCEPT !.height = impeller_height(p),
                            !.diameter = impeller_diameter(p),
                            !.place_rel = Frac(p.place_rel, PScale),
                            !.around_number = round(p.around_number),
                            !.repeat_number = round(p.repeat_number)]
      [] d = "mesh" ->
           [settings EXCEPT !.height0 = rotation_height0,
                            !.height1 = rotation_height1(p),
                            !.radius = rotation_radius(p),
                            !.xscale = mesh_scale(p),
                            !.yscale = mesh_scale(p),
                            !.zscale = mesh_scale(p)]

\* The templates a trial may find: complete, or with one document missing
\* or not parseable.
Templates ==
    { [d \in DocNames |-> Doc(TemplateSettings(d))] }
    \cup { [d \in DocNames |-> IF d = bad THEN NoDoc(how) ELSE Doc(TemplateSettings(d))] :
             bad \in DocNames, how \in {"absent", "corrupt"} }

\* The documents left in the trial directory by an earlier run of the trial.
StaleDocs(p) == [d \in DocNames |-> Doc(UpdateSettings(d, TemplateSettings(d), p))]
NoDocs == [d \in DocNames |-> NoDoc("absent")]

\* assert os.path.isdir("Simulations"); os.mkdir(trial_path) if needed
CreateTrialDir ==
    /\ pc = "mkdir"
    /\ IF simulations
       THEN /\ trialDir' = TRUE
            /\ Goto("copytree")
       ELSE /\ Raise("AssertionError")
            /\ UNCHANGED trialDir
    /\ UNCHANGED <<simulations, template, docs, parameters, callVars, procVars, fileVars,
                   dataVars, outFile, observed>>

\* shutil.copytree without dirs_exist_ok=True: an existing trial directory
\* is an error.
CopyTemplate_DirMustNotExist ==
    /\ pc = "copytree"
    /\ IF trialDir
       THEN /\ Raise("FileExistsError")
            /\ UNCHANGED docs
       ELSE /\ docs' = template
            /\ Goto("vessel_toml")
    /\ UNCHANGED <<simulations, trialDir, template, parameters, callVars, procVars,
                   fileVars, dataVars, outFile, observed>>

\* shutil.copytree("Template", trial_path, dirs_exist_ok=True): every file
\* of Template replaces its copy in the trial directory.
CopyTemplate ==
    /\ pc = "copytree"
    /\ docs' = [d \in DocNames |->
                  IF template[d].st = "absent" THEN docs[d] ELSE template[d]]
    /\ Goto("vessel_toml")
    /\ UNCHANGED <<simulations, trialDir, template, parameters, callVars, procVars, fileVars,
                   dataVars, outFile, observed>>

\* A create_case that goes on when a settings document is not there.
RewriteDoc_Lenient(d, next) ==
    \/ /\ docs[d].st = "absent"
       /\ Goto(next)
       /\ UNCHANGED docs
    \/ /\ docs[d].st = "corrupt"
       /\ Raise("TomlParsingError")
       /\ UNCHANGED docs
    \/ /\ Readable(docs[d])
       /\ docs' = [docs EXCEPT ![d] = Doc(UpdateSettings(d, docs[d].settings, parameters))]
       /\ Goto(next)
    \/ /\ Readable(docs[d])
       /\ docs' = [docs EXCEPT ![d] = NoDoc("corrupt")]
       /\ Raise("OSError")

\* with open(...) as f: settings = rtoml.load(f); settings[...] = ...;
\* with open(..., "w") as f: rtoml.dump(settings, f).  open(..., "w")
\* truncates the document before rtoml.dump writes it.
RewriteDoc(d, next) ==
    \/ /\ docs[d].st = "absent"
       /\ Raise("FileNotFoundError")
       /\ UNCHANGED docs
    \/ /\ docs[d].st = "corrupt"
       /\ Raise("TomlParsingError")
       /\ UNCHANGED docs
    \/ /\ Readable(docs[d])
       /\ docs' = [docs EXCEPT ![d] = Doc(UpdateSettings(d, docs[d].settings, parameters))]
       /\ Goto(next)
    \/ /\ Readable(docs[d])
       /\ docs' = [docs EXCEPT ![d] = NoDoc("corrupt")]
       /\ Raise("OSError")

UpdateVessel ==
    /\ pc = "vessel_toml"
    /\ RewriteDoc("vessel", "impeller_toml")
    /\ UNCHANGED <<simulations, trialDir, template, parameters, callVars, procVars, fileVars,
                   dataVars, outFile, observed>>

UpdateImpeller ==
    /\ pc = "impeller_toml"
    /\ RewriteDoc("impeller", "mesh_toml")
    /\ UNCHANGED <<simulations, trialDir, template, parameters, callVars, procVars, fileVars,
                   dataVars, outFile, observed>>

UpdateMesh ==
    /\ pc = "mesh_toml"
    /\ RewriteDoc("mesh", "vessel")
    /\ UNCHANGED <<simulations, trialDir, template, parameters, callVars, procVars, fileVars,
                   dataVars, outFile, observed>>

(***************************************************************************)
(* External commands.  Each command of the trial is launched as a child    *)
(* process; a record keeps what happened to it.                            *)
(***************************************************************************)
Stages == {"vessel", "impeller", "mesh", "cfd"}
Cleanups == {"rm_processors", "rm_mesh_poly", "rm_cfd_poly"}
Commands == Stages \cup Cleanups

\* returncode of a child: 0, a failure, or -N when signal N ended it.
TermCode == -15
KillCode == -9
ExitCodes == {0, 1, KillCode}

NoPlan == [outlasts |-> FALSE, code |-> 0]
NotStarted ==
    [st |-> "notstarted", code |-> 0, plan |-> NoPlan, sigterm |-> FALSE,
     sigkill |-> FALSE, timedout |-> FALSE, launches |-> 0]

\* A child just started.  plan is what the command does when left alone:
\* whether it runs for longer than the timeout it is given, and its exit code.
Launched(p, plan) ==
    [p EXCEPT !.st = "running", !.plan = plan, !.launches = p.launches + 1]

\* The working directories made by create_case (it read a settings.toml in
\* each) exist; the others are made by the stage scripts, or are not.
CwdKnown == {"vessel", "impeller", "mesh", "rm_processors"}
CwdStates(c) == IF c \in CwdKnown THEN {TRUE} ELSE BOOLEAN

\* system(cmd, cwd): subprocess.run(cmd, check=True, cwd=cwd), the launch.
\* A missing cwd makes Popen raise before any child exists.
system_run(c) ==
    /\ pc = c
    /\ procs[c].st = "notstarted"
    /\ \E cwd \in CwdStates(c) :
         IF cwd
         THEN /\ procs' = [procs EXCEPT ![c] = Launched(@, NoPlan)]
              /\ UNCHANGED <<pc, exitKind, raised>>
         ELSE /\ Raise("FileNotFoundError")
              /\ UNCHANGED procs
    /\ UNCHANGED <<sup, finished, fsVars, parameters, callVars, fileVars, dataVars,
                   outFile, observed>>

\* subprocess.run without check=True: the return code is not looked at.
CheckReturn_Unchecked(code, next) == Goto(next)

\* What check=True does with the child's return code.
CheckReturn(code, next) ==
    IF code # 0 THEN Raise("CalledProcessError") ELSE Goto(next)

\* system(cmd, cwd): the blocking wait of subprocess.run and check=True.
system_wait(c, next) ==
    /\ pc = c
    /\ procs[c].st = "running"
    /\ \E code \in ExitCodes :
         /\ procs' = [procs EXCEPT ![c].st = "exited", ![c].code = code]
         /\ CheckReturn(code, next)
    /\ UNCHANGED <<sup, finished, fsVars, parameters, callVars, fileVars, dataVars,
                   outFile, observed>>

(***************************************************************************)
(* The time series files of the CFD case.  A row is <<timestamp, value>>,  *)
(* the timestamp in ticks; rows follows the four header rows.              *)
(***************************************************************************)
MinRuntime == 20
MinTicks == MinRuntime * TimeScale

File(rows) == [exists |-> TRUE, rows |-> rows]
NoFile == [exists |-> FALSE, rows |-> <<>>]

\* The timestamps around the required runtime, one window below it to one
\* tick above it.
Stamps == (MinTicks - TimeScale) .. (MinTicks + 1)
Values == 0 .. MaxVal

RECURSIVE Increasing(_)
Increasing(ts) ==
    \/ Len(ts) < 2
    \/ /\ ts[1] < ts[2]
       /\ Increasing(Tail(ts))

\* Every series of at most MaxLen rows with increasing timestamps.
SeriesOfLen(n) ==
    { [i \in 1..n |-> <<ts[i], vs[i]>>] :
        ts \in {t \in [1..n -> Stamps] : Increasing(t)}, vs \in [1..n -> Values] }
AllSeries == UNION { SeriesOfLen(n) : n \in 0..MaxLen }

\* The series with timestamps 0, 1, .., 25 (time units) whose value is 1 in
\* row k and 0 elsewhere.
LastUnit == 25
UnitSeries(k) ==
    [i \in 1..(LastUnit + 1) |-> <<(i - 1) * TimeScale, IF i = k THEN 1 ELSE 0>>]
UnitSeriesSet == { UnitSeries(k) : k \in 1..(LastUnit + 1) }

\* What a solver run leaves behind in the pipeline runs: no file, a single
\* row, a run that stopped one tick before MinRuntime, a run that reached it.
ShortRun(v) == << <<MinTicks - TimeScale, v>>, <<MinTicks - 1, v>> >>
LongRun(v) == << <<MinTicks - 1, v>>, <<MinTicks, v>> >>
SolverFiles ==
    {NoFile, File(<< <<MinTicks, 1>> >>), File(ShortRun(1)), File(LongRun(0)),
     File(LongRun(MaxVal))}

(***************************************************************************)
(* system_timeout(cmd, timeout, cwd)                                       *)
(***************************************************************************)
TimedCommands == {"mesh", "cfd"}
Plans == [outlasts : BOOLEAN, code : ExitCodes]

\* Where the script continues once system_timeout has returned.
AfterTimed(c) == IF c = "mesh" THEN "mesh_check" ELSE "rm_mesh_poly"

\* process = subprocess.Popen(cmd, cwd=cwd).  The solver's output files are
\* fixed here as what the run will have written when it stops.
Popen(c) ==
    /\ pc = c
    /\ sup = "none"
    /\ procs[c].st = "notstarted"
    /\ \E cwd \in CwdStates(c) :
         IF cwd
         THEN /\ \E plan \in Plans : procs' = [procs EXCEPT ![c] = Launched(@, plan)]
              /\ sup' = "wait"
              /\ IF c = "cfd"
                 THEN /\ covFile' \in SolverFiles
                      /\ avgFile' \in SolverFiles
                 ELSE UNCHANGED fileVars
              /\ UNCHANGED <<pc, exitKind, raised>>
         ELSE /\ Raise("FileNotFoundError")
              /\ UNCHANGED <<procs, sup, fileVars>>
    /\ UNCHANGED <<finished, fsVars, parameters, callVars, dataVars, outFile, observed>>

\* The return codes a running child can end with now.
CodesNow(p) ==
    IF p.sigkill THEN {KillCode}
    ELSE IF p.sigterm THEN {TermCode, p.plan.code}
    ELSE {p.plan.code}

\* The child ends: on its own (within the timeout unless its plan outlasts
\* it), on SIGTERM if it heeds it, on SIGKILL always.
ChildExits(c) ==
    /\ procs[c].st = "running"
    /\ \/ ~procs[c].plan.outlasts
       \/ procs[c].timedout
    /\ \E code \in CodesNow(procs[c]) :
         procs' = [procs EXCEPT ![c].st = "exited", ![c].code = code]
    /\ UNCHANGED <<pc, exitKind, raised, sup, finished, fsVars, parameters, callVars,
                   fileVars, dataVars, outFile, observed>>

\* The test of the return code inverted: os._exit(1) on code 0.
ReturnCodeCheck_Inverted(c, code) ==
    IF code = 0
    THEN /\ os_exit
         /\ UNCHANGED <<sup, finished>>
    ELSE /\ Goto(AfterTimed(c))
         /\ sup' = "none"
         /\ finished' = "True"

\* No test of the return code: return True whatever it is.
ReturnCodeCheck_Absent(c, code) ==
    /\ Goto(AfterTimed(c))
    /\ sup' = "none"
    /\ finished' = "True"

\* if process.returncode != 0: os._exit(1), else fall through to return True
ReturnCodeCheck(c, code) ==
    IF code # 0
    THEN /\ os_exit
         /\ UNCHANGED <<sup, finished>>
    ELSE /\ Goto(AfterTimed(c))
         /\ sup' = "none"
         /\ finished' = "True"

\* process.wait(timeout=timeout) returns: the child ended within the timeout.
WaitReturns(c) ==
    /\ pc = c
    /\ sup = "wait"
    /\ procs[c].st = "exited"
    /\ ReturnCodeCheck(c, procs[c].code)
    /\ UNCHANGED <<procs, fsVars, parameters, callVars, fileVars, dataVars, outFile, observed>>

\* process.wait(timeout=timeout) raises TimeoutExpired.
WaitExpires(c) ==
    /\ pc = c
    /\ sup = "wait"
    /\ procs[c].st = "running"
    /\ procs[c].plan.outlasts
    /\ procs' = [procs EXCEPT ![c].timedout = TRUE]
    /\ sup' = "terminate"
    /\ UNCHANGED <<pc, exitKind, raised, finished, fsVars, parameters, callVars, fileVars,
                   dataVars, outFile, observed>>

\* process.terminate(): SIGTERM, unless the child is found to have ended.
Terminate(c) ==
    /\ pc = c
    /\ sup = "terminate"
    /\ procs' = [procs EXCEPT ![c].sigterm = (procs[c].st = "running")]
    /\ sup' = "grace"
    /\ UNCHANGED <<pc, exitKind, raised, finished, fsVars, parameters, callVars, fileVars,
                   dataVars, outFile, observed>>

\* A supervisor that reports a timed-out command as finished.
ReturnFalse_True(c) ==
    /\ Goto(AfterTimed(c))
    /\ sup' = "none"
    /\ finished' = "True"

\* A supervisor that raises when the timeout expired.
ReturnFalse_Raises(c) ==
    /\ Raise("RuntimeError")
    /\ sup' = "none"
    /\ finished' = "False"

\* return False
ReturnFalse(c) ==
    /\ Goto(AfterTimed(c))
    /\ sup' = "none"
    /\ finished' = "False"

\* process.wait(timeout=10) returns within the grace period; return False.
GraceReturns(c) ==
    /\ pc = c
    /\ sup = "grace"
    /\ procs[c].st = "exited"
    /\ ReturnFalse(c)
    /\ UNCHANGED <<procs, fsVars, parameters, callVars, fileVars, dataVars, outFile, observed>>

\* process.wait() with no timeout after terminate(): TimeoutExpired is
\* never raised.
GraceExpires_Never(c) ==
    /\ pc = c
    /\ sup = "grace"
    /\ FALSE
    /\ UNCHANGED vars

\* process.wait(timeout=10) raises TimeoutExpired: the child is still there.
GraceExpires(c) ==
    /\ pc = c
    /\ sup = "grace"
    /\ procs[c].st = "running"
    /\ sup' = "kill"
    /\ UNCHANGED <<pc, exitKind, raised, procs, finished, fsVars, parameters, callVars,
                   fileVars, dataVars, outFile, observed>>

\* The forced kill left out: return False after the grace period.
Kill_NotSent(c) ==
    /\ pc = c
    /\ sup = "kill"
    /\ ReturnFalse(c)
    /\ UNCHANGED <<procs, fsVars, parameters, callVars, fileVars, dataVars, outFile, observed>>

\* process.kill(): SIGKILL, unless the child is found to have ended; then
\* return False, without waiting for the child.
Kill(c) ==
    /\ pc = c
    /\ sup = "kill"
    /\ procs' = [procs EXCEPT ![c].sigkill = (procs[c].st = "running")]
    /\ ReturnFalse(c)
    /\ UNCHANGED <<fsVars, parameters, callVars, fileVars, dataVars, outFile, observed>>

\* mesh_case without its check of `finished`.
MeshCheck_Ignored ==
    /\ pc = "mesh_check"
    /\ Goto("rm_processors")
    /\ UNCHANGED <<procVars, fsVars, parameters, callVars, fileVars, dataVars, outFile, observed>>

\* mesh_case: if not finished: raise RuntimeError("Meshing timed out")
MeshCheck ==
    /\ pc = "mesh_check"
    /\ IF finished = "False"
       THEN Raise("RuntimeError")
       ELSE Goto("rm_processors")
    /\ UNCHANGED <<procVars, fsVars, parameters, callVars, fileVars, dataVars, outFile, observed>>

(***************************************************************************)
(* Result extraction: the mean over the last time unit of each series.     *)
(***************************************************************************)
Unset == Frac(0, 0)

\* np.loadtxt(path, skiprows=4) squeezes its result: a file of one data row
\* (or none) loads as a one-dimensional array, which data[:, 0] rejects.
TwoDimensional(rows) == Len(rows) >= 2

\* The window closed at its lower end: >= in place of >.
time_selection_closed(data) ==
    [i \in 1..Len(data) |-> data[i][1] >= data[Len(data)][1] - TimeScale]

\* data[:, 0] > data[-1, 0] - 1, the mask over the rows
time_selection(data) ==
    [i \in 1..Len(data) |-> data[i][1] > data[Len(data)][1] - TimeScale]

\* data[mask, 1], the values of the rows the mask keeps, in order
RECURSIVE Masked(_, _, _)
Masked(data, mask, i) ==
    IF i > Len(data) THEN <<>>
    ELSE (IF mask[i] THEN <<data[i][2]>> ELSE <<>>) \o Masked(data, mask, i + 1)

RECURSIVE SumSeq(_)
SumSeq(xs) == IF xs = <<>> THEN 0 ELSE Head(xs) + SumSeq(Tail(xs))

\* x.mean()
mean(xs) == Frac(SumSeq(xs), Len(xs))

\* data[time_selection, 1].mean()
WindowMean(data) == mean(Masked(data, time_selection(data), 1))

\* os.listdir(...), natsorted(...)[-1], np.loadtxt and the windowed mean of
\* one metric; `kind` is "cov" or "avg".
LoadSeries(file, kind, next) ==
    \/ /\ ~file.exists
       /\ Raise("FileNotFoundError")
       /\ UNCHANGED <<cov_data, avg_data, epsilon_cov, epsilon_avg>>
    \/ /\ file.exists
       /\ ~TwoDimensional(file.rows)
       /\ Raise("IndexError")
       /\ UNCHANGED <<cov_data, avg_data, epsilon_cov, epsilon_avg>>
    \/ /\ file.exists
       /\ TwoDimensional(file.rows)
       /\ IF kind = "cov"
          THEN /\ cov_data' = file.rows
               /\ epsilon_cov' = WindowMean(file.rows)
               /\ UNCHANGED <<avg_data, epsilon_avg>>
          ELSE /\ avg_data' = file.rows
               /\ epsilon_avg' = WindowMean(file.rows)
               /\ UNCHANGED <<cov_data, epsilon_cov>>
       /\ Goto(next)

LoadCov ==
    /\ pc = "load_cov"
    /\ LoadSeries(covFile, "cov", "load_avg")
    /\ UNCHANGED <<final_time, error, procVars, fsVars, parameters, callVars, fileVars,
                   outFile, observed>>

LoadAvg ==
    /\ pc = "load_avg"
    /\ LoadSeries(avgFile, "avg", "check_time")
    /\ UNCHANGED <<final_time, error, procVars, fsVars, parameters, callVars, fileVars,
                   outFile, observed>>

\* final_time = avg_data[-1, 0]
FinalTime(avg) == avg[Len(avg)][1]

\* The runtime check left out.
TooShort_Never(t) == FALSE

\* if final_time < 20: raise RuntimeError(...)
TooShort(t) == t < MinTicks

CheckTime ==
    /\ pc = "check_time"
    /\ final_time' = FinalTime(avg_data)
    /\ IF TooShort(final_time')
       THEN Raise("RuntimeError")
       ELSE Goto("make_error")
    /\ UNCHANGED <<cov_data, avg_data, epsilon_cov, epsilon_avg, error, procVars,
                   fsVars, parameters, callVars, fileVars, outFile, observed>>

\* epsilon_cov = max(epsilon_cov, 0.5)
CovCap == Frac(1, 2)
\* The cap applied from above: min in place of max.
cap_min(e) == IF FracLess(CovCap, e) THEN CovCap ELSE e
cap(e) == IF FracLess(e, CovCap) THEN CovCap ELSE e

Neg(a) == Frac(-a[1], a[2])
Inverse(a) == Frac(a[2], a[1])

\* error = [-epsilon_avg, 1 / epsilon_cov]
ErrorVector(avg, cov) == <<Neg(avg), Inverse(cov)>>

MakeError ==
    /\ pc = "make_error"
    /\ epsilon_cov' = cap(epsilon_cov)
    /\ error' = ErrorVector(epsilon_avg, epsilon_cov')
    /\ Goto("open_out")
    /\ UNCHANGED <<cov_data, avg_data, epsilon_avg, final_time, procVars, fsVars,
                   parameters, callVars, fileVars, outFile, observed>>

(***************************************************************************)
(* Saving `error` to sys.argv[2], and the optimizer that polls for it.     *)
(***************************************************************************)
NoOutput == [exists |-> FALSE, content |-> <<Unset, Unset>>]
\* The file as open(path, "wb") leaves it: created, nothing in it yet.
EmptyOutput == [exists |-> TRUE, content |-> <<Unset, Unset>>]
Pickled(e) == [exists |-> TRUE, content |-> e]

\* open(sys.argv[2], "wb"): creates the file, or truncates it
OpenOutput ==
    /\ pc = "open_out"
    /\ \/ /\ outFile' = EmptyOutput
          /\ Goto("dump")
       \/ /\ Raise("OSError")
          /\ UNCHANGED outFile
    /\ UNCHANGED <<dataVars, procVars, fsVars, parameters, callVars, fileVars, observed>>

\* pickle.dump(error, f) and the close of the with block, which flushes the
\* bytes to the file; `extra` is defined nowhere, so nothing else is saved
\* and the script ends.
DumpError ==
    /\ pc = "dump"
    /\ \/ /\ outFile' = Pickled(error)
          /\ pc' = "done"
          /\ exitKind' = "ok"
          /\ UNCHANGED raised
       \/ /\ Raise("OSError")
          /\ UNCHANGED outFile
    /\ UNCHANGED <<dataVars, procVars, fsVars, parameters, callVars, fileVars, observed>>

\* The optimizer looks at sys.argv[2].
Poll ==
    /\ observed # outFile
    /\ observed' = outFile
    /\ UNCHANGED <<pc, exitKind, raised, dataVars, procVars, fsVars, parameters, callVars,
                   fileVars, outFile>>

(***************************************************************************)
(* The script, top to bottom.                                              *)
(***************************************************************************)
\* The statement after each system(...) call of mesh_case and run_case.
\* A pipeline that goes from the vessel geometry straight to the mesh.
AfterSystem_SkipImpeller(c) ==
    CASE c = "vessel" -> "mesh"
      [] c = "impeller" -> "mesh"
      [] c = "rm_processors" -> "cfd"
      [] c = "rm_mesh_poly" -> "rm_cfd_poly"
      [] c = "rm_cfd_poly" -> "load_cov"

\* The statement of mesh_case / run_case that follows a system(...) call.
AfterSystem(c) ==
    CASE c = "vessel" -> "impeller"
      [] c = "impeller" -> "mesh"
      [] c = "rm_processors" -> "cfd"
      [] c = "rm_mesh_poly" -> "rm_cfd_poly"
      [] c = "rm_cfd_poly" -> "load_cov"

NoData ==
    /\ cov_data = <<>>
    /\ avg_data = <<>>
    /\ epsilon_cov = Unset
    /\ epsilon_avg = Unset
    /\ final_time = 0
    /\ error = <<Unset, Unset>>

Init ==
    /\ pc = "mkdir"
    /\ exitKind = "none"
    /\ raised = NotRaised
    /\ parameters \in ParameterSets
    /\ simulations \in BOOLEAN
    /\ trialDir \in (IF simulations THEN BOOLEAN ELSE {FALSE})
    /\ template \in Templates
    /\ docs \in (IF trialDir
                 THEN {NoDocs} \cup {StaleDocs(q) : q \in ParameterSets}
                 ELSE {NoDocs})
    /\ procs = [c \in Commands |-> NotStarted]
    /\ sup = "none"
    /\ finished = "unset"
    /\ covFile = NoFile
    /\ avgFile = NoFile
    /\ NoData
    /\ outFile = NoOutput
    /\ observed = NoOutput
    /\ calls = 0
    /\ firstDocs = NoDocs

Next ==
    \/ CreateTrialDir
    \/ CopyTemplate
    \/ UpdateVessel
    \/ UpdateImpeller
    \/ UpdateMesh
    \/ \E c \in Commands \ TimedCommands : system_run(c)
    \/ \E c \in Commands \ TimedCommands : system_wait(c, AfterSystem(c))
    \/ \E c \in TimedCommands : Popen(c)
    \/ \E c \in TimedCommands : ChildExits(c)
    \/ \E c \in TimedCommands : WaitReturns(c)
    \/ \E c \in TimedCommands : WaitExpires(c)
    \/ \E c \in TimedCommands : Terminate(c)
    \/ \E c \in TimedCommands : GraceReturns(c)
    \/ \E c \in TimedCommands : GraceExpires(c)
    \/ \E c \in TimedCommands : Kill(c)
    \/ MeshCheck
    \/ LoadCov
    \/ LoadAvg
    \/ CheckTime
    \/ MakeError
    \/ OpenOutput
    \/ DumpError
    \/ Poll

Spec == Init /\ [][Next]_vars

(***************************************************************************)
(* The extraction and the save alone, on every series of the bounds: the   *)
(* script stands after run_case, every command having ended with code 0.   *)
(***************************************************************************)
Succeeded ==
    [st |-> "exited", code |-> 0, plan |-> NoPlan, sigterm |-> FALSE,
     sigkill |-> FALSE, timedout |-> FALSE, launches |-> 1]

ReferenceFiles == {File(ShortRun(1)), File(LongRun(1))}
InputFiles == {File(rows) : rows \in AllSeries \cup UnitSeriesSet}

InitExtract ==
    /\ pc = "load_cov"
    /\ exitKind = "none"
    /\ raised = NotRaised
    /\ parameters \in ParameterSets
    /\ simulations = TRUE
    /\ trialDir = TRUE
    /\ template = [d \in DocNames |-> Doc(TemplateSettings(d))]
    /\ docs = StaleDocs(parameters)
    /\ procs = [c \in Commands |-> Succeeded]
    /\ sup = "none"
    /\ finished = "True"
    /\ \/ covFile \in InputFiles /\ avgFile \in ReferenceFiles
       \/ covFile \in ReferenceFiles /\ avgFile \in InputFiles
    /\ NoData
    /\ outFile = NoOutput
    /\ observed = NoOutput
    /\ calls = 0
    /\ firstDocs = NoDocs

NextExtract ==
    \/ LoadCov
    \/ LoadAvg
    \/ CheckTime
    \/ MakeError
    \/ OpenOutput
    \/ DumpError
    \/ Poll

SpecExtract == InitExtract /\ [][NextExtract]_vars

(***************************************************************************)
(* What became of each command, as the claims name it.                     *)
(***************************************************************************)
\* Completed(0): the child ended on its own, within its timeout, with code 0.
Completed0(c) ==
    /\ procs[c].st = "exited"
    /\ procs[c].code = 0
    /\ ~procs[c].timedout

\* TimedOut: the supervisor's wait ran into the timeout.
TimedOut(c) == procs[c].timedout

\* The child ended on its own with a non-zero code (a failure, or a signal
\* that was not the supervisor's).
ExitedNonZero(c) ==
    /\ procs[c].st = "exited"
    /\ procs[c].code # 0
    /\ ~procs[c].timedout

ErrorMade == error # <<Unset, Unset>>
Written == outFile.exists /\ outFile.content # <<Unset, Unset>>

\* C1 as stated: the error vector is produced and written to sys.argv[2]
\* only if each of the four stages (vessel, impeller, mesh, cfd) ended
\* Completed with exit code 0.  The script violates it: a timed-out cfd
\* stage is followed by extraction and the save.
C1_AllStagesCompleted ==
    (ErrorMade \/ outFile.exists) => \A c \in Stages : Completed0(c)

\* C1 as amended: the error vector is produced and written only if the
\* vessel, impeller and mesh stages ended Completed(0) and the cfd stage
\* ended either Completed(0) or TimedOut; no run in which a stage ended with
\* a non-zero code, or the mesh stage timed out, reaches the write.
C1_StagesBeforeWrite ==
    (ErrorMade \/ outFile.exists) =>
        /\ \A c \in {"vessel", "impeller", "mesh"} : Completed0(c)
        /\ Completed0("cfd") \/ TimedOut("cfd")

\* A run whose cfd stage timed out and whose error vector is in the file.
C1_Witness ==
    /\ pc = "done"
    /\ Written
    /\ TimedOut("cfd")
    /\ \A c \in {"vessel", "impeller", "mesh"} : Completed0(c)

\* The fatal errors of a trial, as they show in the state.
StageFailed == \E c \in Stages : ExitedNonZero(c)
MeshTimedOut == TimedOut("mesh")
ConfigFailed == raised.at \in {"vessel_toml", "impeller_toml", "mesh_toml"}
RanTooShort == avg_data # <<>> /\ pc # "check_time" /\ FinalTime(avg_data) < MinTicks
FatalError == StageFailed \/ MeshTimedOut \/ ConfigFailed \/ RanTooShort

\* C2: whenever a stage has exited non-zero, the mesh stage has timed out, a
\* settings document could not be read or written, or the final timestamp
\* (final_time, the last timestamp of the volume-average series) is below
\* 20, the output file does not exist, the script never ends normally, and
\* once stopped it has ended by an exception or by os._exit; whenever the
\* output file exists, none of these errors happened and the error vector
\* had been computed.
C2_FatalErrorsWriteNothing ==
    /\ FatalError =>
         /\ ~outFile.exists
         /\ exitKind # "ok"
         /\ pc # "done"
         /\ pc = "stopped" => exitKind \in {"exception", "os_exit"}
    /\ outFile.exists => ErrorMade /\ ~FatalError

\* A run stopped by the runtime check, with no output file.
C2_Witness ==
    /\ pc = "stopped"
    /\ raised = [exc |-> "RuntimeError", at |-> "check_time"]
    /\ RanTooShort
    /\ ~outFile.exists

\* C3 as stated: the optimizer never sees the output file exist while its
\* content is missing.  The script violates it: open(sys.argv[2], "wb")
\* creates the file under its final name before pickle.dump fills it.
C3_AtomicSave == observed.exists => observed.content # <<Unset, Unset>>

\* system_timeout(c, ...) has just returned to its caller: the script
\* stands at the statement after the call and has not gone on.
Returned(c) ==
    /\ procs[c].launches > 0
    /\ pc = AfterTimed(c)
    /\ c = "cfd" => procs["rm_mesh_poly"].st = "notstarted"

\* The command runs for longer than the timeout when left alone.
Outlasts(c) == procs[c].launches > 0 /\ procs[c].plan.outlasts

\* C4 as stated: when the command's natural runtime exceeds the timeout,
\* system_timeout returns False and at its return the child is no longer
\* running.  The script violates the second half: after process.kill() it
\* returns without waiting for the child.
C4_ChildGoneAtReturn ==
    \A c \in TimedCommands :
        (Returned(c) /\ Outlasts(c)) =>
            finished = "False" /\ procs[c].st = "exited"

\* C4 as amended: when the command's natural runtime exceeds the timeout,
\* system_timeout returns False, and at its return the child has either
\* ended or has been sent SIGKILL (it may then still be running, since the
\* supervisor does not wait after the kill); SIGKILL is only ever sent after
\* SIGTERM and the timeout.
C4_TimedOutAndSignalled ==
    \A c \in TimedCommands :
        /\ (Returned(c) /\ Outlasts(c)) =>
              /\ finished = "False"
              /\ TimedOut(c)
              /\ procs[c].st = "exited" \/ procs[c].sigkill
        /\ procs[c].sigkill => procs[c].sigterm /\ TimedOut(c)

\* system_timeout has returned False from the forced kill while the child
\* is still running.
C4_Witness ==
    /\ Returned("cfd")
    /\ Outlasts("cfd")
    /\ finished = "False"
    /\ procs["cfd"].sigkill
    /\ procs["cfd"].st = "running"

\* The command ends on its own, within the timeout, with this code.
ExitsInTime(c, code) ==
    /\ procs[c].launches > 0
    /\ ~procs[c].plan.outlasts
    /\ procs[c].plan.code = code

\* C5: a command that exits with code 0 before the timeout is never sent
\* SIGTERM or SIGKILL, its wait never times out, system_timeout does not
\* stop the script, and what it returns is True.
C5_ZeroExitReturnsTrue ==
    \A c \in TimedCommands :
        ExitsInTime(c, 0) =>
            /\ ~procs[c].sigterm
            /\ ~procs[c].sigkill
            /\ ~TimedOut(c)
            /\ raised.at # c
            /\ Returned(c) => finished = "True"

\* The mesh command exited 0 in time and system_timeout returned True.
C5_Witness ==
    /\ ExitsInTime("mesh", 0)
    /\ Returned("mesh")
    /\ finished = "True"
    /\ procs["mesh"].st = "exited"

\* C6 as stated: whatever the exit code of a command that ends within the
\* window, system_timeout returns to its caller and does not itself end the
\* trial.  The script violates it: on a non-zero code it calls os._exit(1).
C6_SupervisorNeverEndsTrial ==
    \A c \in TimedCommands :
        ExitedNonZero(c) => ~(exitKind = "os_exit" /\ raised.at = c)

\* C6 as amended: for a command that ends within the window, system_timeout
\* returns True when the exit code is 0; when it is non-zero system_timeout
\* itself ends the trial with os._exit(1) and never returns to its caller.
C6_NonZeroExitsProcess ==
    \A c \in TimedCommands :
        /\ ExitedNonZero(c) =>
              /\ pc \in {c, "stopped"}
              /\ pc = "stopped" => (exitKind = "os_exit" /\ raised.at = c)
        /\ (Completed0(c) /\ pc # c) =>
              /\ raised.at # c
              /\ Returned(c) => finished = "True"

\* The cfd command failed within the window and os._exit(1) ended the trial.
C6_Witness ==
    /\ ExitedNonZero("cfd")
    /\ pc = "stopped"
    /\ exitKind = "os_exit"
    /\ raised.at = "cfd"

SystemCommands == Commands \ TimedCommands

\* The commands of the script that come after command c.
Later(c) ==
    CASE c = "vessel" -> Commands \ {"vessel"}
      [] c = "impeller" -> Commands \ {"vessel", "impeller"}
      [] c = "rm_processors" -> {"cfd", "rm_mesh_poly", "rm_cfd_poly"}
      [] c = "rm_mesh_poly" -> {"rm_cfd_poly"}
      [] c = "rm_cfd_poly" -> {}

\* C7 as stated: a non-zero exit under system ends the trial by a hard stop
\* that no handler can catch (os._exit).  The script violates it: system
\* raises CalledProcessError from subprocess.run(check=True).
C7_SystemHardStops ==
    \A c \in SystemCommands :
        (procs[c].st = "exited" /\ procs[c].code # 0) => exitKind = "os_exit"

\* C7 as amended: a non-zero exit under system raises CalledProcessError, an
\* ordinary exception; nothing in the script catches it, so it ends the
\* trial: no later command is launched, no error vector is computed and no
\* output file is written.
C7_SystemRaises ==
    \A c \in SystemCommands :
        (procs[c].st = "exited" /\ procs[c].code # 0) =>
            /\ pc = "stopped"
            /\ exitKind = "exception"
            /\ raised = [exc |-> "CalledProcessError", at |-> c]
            /\ \A d \in Later(c) : procs[d].launches = 0
            /\ ~ErrorMade
            /\ ~outFile.exists

\* The impeller geometry command failed and the exception ended the trial.
C7_Witness ==
    /\ procs["impeller"].st = "exited"
    /\ procs["impeller"].code = 1
    /\ pc = "stopped"
    /\ raised.exc = "CalledProcessError"

LastStamp(data) == data[Len(data)][1]

\* C8 as stated: the output file is written only if the last timestamp of
\* the CoV series and the last timestamp of the volume-average series are
\* both at least 20.  The script violates it: final_time is read from
\* avg_data alone.
C8_BothSeriesReachMinRuntime ==
    outFile.exists =>
        /\ LastStamp(cov_data) >= MinTicks
        /\ LastStamp(avg_data) >= MinTicks

Two == Frac(2, 1)
Zero == Frac(0, 1)

\* C9 as stated: the second component of the written error vector is never
\* less than 2.  The script violates it: 1 / max(mean, 0.5) is at most 2.
C9_SecondAtLeastTwo ==
    Written => FracLeq(Two, outFile.content[2])

\* C9 as amended: for every series of finite values, the second component
\* of the error vector, computed and written, is greater than 0 and never
\* greater than 2, and it is 2 exactly when the windowed CoV mean is at
\* most 0.5.
C9_SecondAtMostTwo ==
    /\ ErrorMade =>
         /\ error[2][2] > 0
         /\ FracLess(Zero, error[2])
         /\ FracLeq(error[2], Two)
         /\ FracEq(error[2], Two) <=> FracLeq(WindowMean(cov_data), CovCap)
    /\ Written => outFile.content = error

\* A written error vector whose second component is below 2.
C9_WitnessBelowTwo ==
    /\ Written
    /\ FracLess(outFile.content[2], Two)

\* The rows of the trailing window: timestamp > last timestamp - 1.
WindowRows(data) == {i \in 1..Len(data) : data[i][1] > LastStamp(data) - TimeScale}

RECURSIVE SumOver(_, _)
SumOver(data, rows) ==
    IF rows = {} THEN 0
    ELSE LET i == CHOOSE j \in rows : TRUE
         IN  data[i][2] + SumOver(data, rows \ {i})

\* The arithmetic mean of the values of exactly the rows of the window.
MeanOfWindow(data) == Frac(SumOver(data, WindowRows(data)), Cardinality(WindowRows(data)))

\* Where the extracted means stand as extracted (epsilon_cov until the cap).
CovExtracted == pc \in {"load_avg", "check_time", "make_error"}
AvgExtracted == avg_data # <<>>

\* C10: each extracted mean is the arithmetic mean of the values of exactly
\* the rows with timestamp > last timestamp - 1; for the series with
\* timestamps 0..25 it is the value of the row with timestamp 25.
C10_MeanOfTrailingWindow ==
    /\ CovExtracted =>
         /\ epsilon_cov = MeanOfWindow(cov_data)
         /\ cov_data \in UnitSeriesSet => epsilon_cov = Frac(cov_data[LastUnit + 1][2], 1)
    /\ AvgExtracted =>
         /\ epsilon_avg = MeanOfWindow(avg_data)
         /\ avg_data \in UnitSeriesSet => epsilon_avg = Frac(avg_data[LastUnit + 1][2], 1)

\* A mean extracted from a series with two rows in the window, a row just
\* on its open end (timestamp = last - 1) and values that tell them apart.
C10_Witness ==
    /\ CovExtracted
    /\ Cardinality(WindowRows(cov_data)) = 2
    /\ \E i \in 1..Len(cov_data) :
         /\ cov_data[i][1] = LastStamp(cov_data) - TimeScale
         /\ cov_data[i][2] = MaxVal
    /\ epsilon_cov = Frac(1, 2)

(***************************************************************************)
(* create_case called twice on the same trial directory with the same      *)
(* parameters: when the first call has returned, it is called again.       *)
(***************************************************************************)
\* create_case has returned: the script stands before the first stage.
CreateCaseReturned == pc = "vessel" /\ procs["vessel"].st = "notstarted"

\* create_case(parameters, trial_path), a second time
CallAgain ==
    /\ CreateCaseReturned
    /\ calls = 0
    /\ calls' = 1
    /\ firstDocs' = docs
    /\ Goto("copytree")
    /\ UNCHANGED <<fsVars, parameters, procVars, fileVars, dataVars, outFile, observed>>

NextTwice ==
    \/ CreateTrialDir
    \/ CopyTemplate
    \/ UpdateVessel
    \/ UpdateImpeller
    \/ UpdateMesh
    \/ CallAgain

SpecTwice == Init /\ [][NextTwice]_vars

\* C11: when create_case is called a second time on the same trial
\* directory with the same parameters and returns, the three settings
\* documents are what the first call left; no call fails with
\* FileExistsError, and the second call stops only on a failed write.
C11_CreateCaseIdempotent ==
    /\ (calls = 1 /\ CreateCaseReturned) => docs = firstDocs
    /\ raised.exc # "FileExistsError"
    /\ (calls = 1 /\ pc = "stopped") => raised.exc = "OSError"

\* The second call has returned on documents that carry the trial's values.
C11_Witness ==
    /\ calls = 1
    /\ CreateCaseReturned
    /\ docs = firstDocs
    /\ docs["vessel"].settings.height0 = vessel_height0(parameters)
    /\ docs["mesh"].settings.radius = rotation_radius(parameters)

(***************************************************************************)
(* The order of the pipeline.                                              *)
(***************************************************************************)
\* The statements of the script from the first stage on, in program order.
Steps ==
    <<"vessel", "impeller", "mesh", "mesh_check", "rm_processors", "cfd",
      "rm_mesh_poly", "rm_cfd_poly", "load_cov", "load_avg", "check_time",
      "make_error", "open_out", "dump", "done">>

\* Where the script stands, or stood when it stopped.
Place == IF pc = "stopped" THEN raised.at ELSE pc

StepOf(l) == CHOOSE i \in 1..Len(Steps) : Steps[i] = l
Reached(l) == \E i \in 1..Len(Steps) : Steps[i] = Place /\ StepOf(l) <= i
Passed(l) == \E i \in 1..Len(Steps) : Steps[i] = Place /\ StepOf(l) < i

\* C12: the stages start in the order vessel, impeller, mesh, cfd.  A stage
\* that has been launched finds every earlier stage launched once and its
\* child ended with code 0; a stage the script has gone past has been
\* launched; and no stage command is launched more than once.
C12_StagesInOrderOnce ==
    /\ \A c \in Stages : procs[c].launches <= 1
    /\ \A c, d \in Stages :
         (StepOf(c) < StepOf(d) /\ procs[d].launches > 0) =>
             /\ procs[c].launches = 1
             /\ procs[c].st = "exited"
             /\ procs[c].code = 0
    /\ \A c \in Stages : Passed(c) => procs[c].launches = 1
    /\ \A c \in Stages : procs[c].launches > 0 => Reached(c)

\* The script ended normally and each of the four stages ran once.
C12_Witness ==
    /\ pc = "done"
    /\ \A c \in Stages : procs[c].launches = 1 /\ procs[c].st = "exited"
    /\ Completed0("cfd")

\* C13: a cleanup step that fails (its rm exits with a non-zero code, or
\* its working directory does not exist) never stops the script: the script
\* never stands stopped at one of the three cleanup commands.  The script
\* violates it: the cleanups go through system(), whose check=True raises
\* CalledProcessError and whose missing cwd raises FileNotFoundError.
C13_CleanupNeverAborts ==
    \A c \in Cleanups : ~(pc = "stopped" /\ raised.at = c)

\* C14: once the wait for the mesh stage has run into its timeout, the cfd
\* stage is never launched, the script never gets past the check of
\* `finished`, nothing is extracted, the output file never exists, and the
\* script, once stopped, has stopped on the RuntimeError of that check.
C14_MeshTimeoutAborts ==
    TimedOut("mesh") =>
        /\ procs["cfd"].launches = 0
        /\ ~Passed("mesh_check")
        /\ cov_data = <<>> /\ avg_data = <<>>
        /\ ~ErrorMade
        /\ ~outFile.exists
        /\ pc # "done"
        /\ pc = "stopped" =>
              raised = [exc |-> "RuntimeError", at |-> "mesh_check"]

\* The mesh stage timed out and the script stopped on "Meshing timed out".
C14_Witness ==
    /\ TimedOut("mesh")
    /\ pc = "stopped"
    /\ raised.exc = "RuntimeError"
    /\ finished = "False"
    /\ procs["cfd"].st = "notstarted"

\* C15: once the wait for the cfd stage has run into its timeout, the
\* script is never stopped at the cfd stage; the first post-solve cleanup is
\* launched only when the child has been sent the terminate signal or has
\* ended; extraction is reached only after both post-solve cleanups ended
\* with code 0; and the runtime check stops the script only if the last
\* timestamp of the volume-average series is below 20.
C15_CfdTimeoutGoesOn ==
    TimedOut("cfd") =>
        /\ ~(pc = "stopped" /\ raised.at = "cfd")
        /\ Passed("cfd") => finished = "False"
        /\ procs["rm_mesh_poly"].launches > 0 =>
              procs["cfd"].sigterm \/ procs["cfd"].st = "exited"
        /\ Reached("load_cov") =>
              Completed0("rm_mesh_poly") /\ Completed0("rm_cfd_poly")
        /\ (pc = "stopped" /\ raised.at = "check_time") =>
              FinalTime(avg_data) < MinTicks

\* The cfd stage timed out and was killed, both cleanups ran, both series
\* reach timestamp 20 and the error vector is in the output file.
C15_Witness ==
    /\ pc = "done"
    /\ TimedOut("cfd")
    /\ procs["cfd"].sigkill
    /\ Completed0("rm_mesh_poly") /\ Completed0("rm_cfd_poly")
    /\ LastStamp(cov_data) >= MinTicks
    /\ FinalTime(avg_data) >= MinTicks
    /\ outFile = Pickled(error)
    /\ ErrorMade

\* The three settings documents are readable and carry, in every key that
\* create_case sets, the value derived from the trial's parameters.
VesselWritten ==
    /\ Readable(docs["vessel"])
    /\ docs["vessel"].settings.height0 = vessel_height0(parameters)
    /\ docs["vessel"].settings.xtranslate = vessel_xtranslate(parameters)
    /\ docs["vessel"].settings.ytranslate = vessel_ytranslate(parameters)

ImpellerWritten ==
    /\ Readable(docs["impeller"])
    /\ docs["impeller"].settings.height = impeller_height(parameters)
    /\ docs["impeller"].settings.diameter = impeller_diameter(parameters)
    /\ docs["impeller"].settings.place_rel = Frac(parameters.place_rel, PScale)
    /\ docs["impeller"].settings.around_number = round(parameters.around_number)
    /\ docs["impeller"].settings.repeat_number = round(parameters.repeat_number)

MeshWritten ==
    /\ Readable(docs["mesh"])
    /\ docs["mesh"].settings.height0 = rotation_height0
    /\ docs["mesh"].settings.height1 = rotation_height1(parameters)
    /\ docs["mesh"].settings.radius = rotation_radius(parameters)
    /\ docs["mesh"].settings.xscale = mesh_scale(parameters)
    /\ docs["mesh"].settings.yscale = mesh_scale(parameters)
    /\ docs["mesh"].settings.zscale = mesh_scale(parameters)

CreateSteps == {"mkdir", "copytree", "vessel_toml", "impeller_toml", "mesh_toml"}

\* C16: whenever a command of the pipeline has been launched, the trial
\* directory exists and create_case has written all three settings
\* documents in full; while the script stands in, or has stopped in, the
\* creation of the trial directory or create_case, no command has been
\* launched.
C16_WorkspaceBeforeStages ==
    /\ (\E c \in Commands : procs[c].launches > 0) =>
          /\ simulations /\ trialDir
          /\ VesselWritten /\ ImpellerWritten /\ MeshWritten
    /\ Place \in CreateSteps => \A c \in Commands : procs[c].launches = 0

\* The first stage is running, in a trial directory whose three documents
\* carry the values of the trial.
C16_Witness ==
    /\ procs["vessel"].st = "running"
    /\ trialDir
    /\ VesselWritten /\ ImpellerWritten /\ MeshWritten

\* create_case failed: the script stopped in it and no command was launched.
C16_WitnessFailed ==
    /\ pc = "stopped"
    /\ raised.at = "mesh_toml"
    /\ \A c \in Commands : procs[c].launches = 0

(***************************************************************************)
(* Termination of system_timeout.  The interpreter goes on whenever it     *)
(* can: each wait ends when its child has ended or its time is up, and the *)
(* statements between the waits are executed.  A child whose plan is to    *)
(* end within the timeout does so; nothing is assumed of a child that      *)
(* outlasts the timeout: it may ignore SIGTERM and may never be seen to    *)
(* end.                                                                    *)
(***************************************************************************)
SupervisorStep(c) ==
    \/ WaitReturns(c)
    \/ WaitExpires(c)
    \/ Terminate(c)
    \/ GraceReturns(c)
    \/ GraceExpires(c)
    \/ Kill(c)

EndsInTime(c) == ~procs[c].plan.outlasts /\ ChildExits(c)

Fairness ==
    \A c \in TimedCommands :
        /\ WF_vars(SupervisorStep(c))
        /\ WF_vars(EndsInTime(c))

SpecLive == Init /\ [][Next]_vars /\ Fairness

\* The script is inside the call system_timeout(...) of command c.
InCall(c) == pc = c /\ sup # "none"

\* The waits of system_timeout follow each other one way only: the grace
\* period is entered from terminate() alone, and from the forced kill the
\* supervisor goes nowhere but to its return.
OneWay ==
    /\ sup' = "wait" => sup \in {"none", "wait"}
    /\ sup' = "terminate" => sup \in {"wait", "terminate"}
    /\ sup' = "grace" => sup \in {"terminate", "grace"}
    /\ sup' = "kill" => sup \in {"grace", "kill"}
    /\ sup = "kill" => sup' \in {"kill", "none"}

\* C17: every call of system_timeout ends, by a return or by os._exit,
\* whatever the child does: a script inside the call is eventually outside
\* it, also when the child never ends and ignores SIGTERM; the supervisor
\* waits one timeout and one grace period at most, and after the forced
\* kill it returns without waiting for the child.
C17_SystemTimeoutEnds ==
    /\ \A c \in TimedCommands : InCall(c) ~> ~InCall(c)
    /\ \A c \in TimedCommands : (pc = c /\ sup = "kill") ~> (pc # c /\ sup = "none")
    /\ [][OneWay]_vars

\* The mesh command ignored SIGTERM, was sent SIGKILL and is not seen to
\* have ended, and system_timeout has returned.
C17_Witness ==
    /\ ~InCall("mesh")
    /\ Passed("mesh")
    /\ procs["mesh"].plan.outlasts
    /\ procs["mesh"].sigterm /\ procs["mesh"].sigkill
    /\ procs["mesh"].st = "running"

====
